---- MODULE Spec2Model ----
(***************************************************************************)
(* CSVFile (src/main.py): a sparse index from line numbers to file offsets *)
(* built by one pass over a text stream, get_line's seek-and-scan lookup   *)
(* and the iterator protocol the object implements on itself.              *)
(*                                                                         *)
(* A text is the sequence of the code points of its characters (ord(ch));  *)
(* file offsets count characters from 0, as StringIO.tell() does.          *)
(***************************************************************************)
EXTENDS Integers, Sequences, FiniteSets, TLC

\* ------------------------------------------------------------------ bounds
MaxLines == 4   \* most lines in a stream, the header line included
MaxChunk == 3   \* chunk sizes 1..MaxChunk are tried besides CHUNK_SIZE
Margin == 1     \* how far outside [1, length + 1] an argument or the cursor goes

\* ------------------------------------------------------- program constants
CHUNK_SIZE == 1000
SEPARATOR == 44   \* ord(',')
NL == 10          \* ord('\n'), where readline() ends a line
\* The characters str.strip() removes: those with str.isspace() true,
\* '\t' '\n' '\v' '\f' '\r', U+001C..U+001F, ' ', U+0085, U+00A0 and the
\* Unicode space separators.
Whitespace ==
    (9..13) \cup (28..32) \cup {133, 160, 5760} \cup (8192..8202)
        \cup {8232, 8233, 8239, 8287, 12288}

\* ------------------------------------------------------------ stream model
\* The line bodies the streams are made of (without their newline):
\* 'a' and 'b, a\t'.
LineBodies == { <<97>>, <<98, 44, 32, 97, 9>> }

RECURSIVE Join(_, _)
\* The text whose lines are ls; every line but the last ends in a newline,
\* the last one does when finalNewline.
Join(ls, finalNewline) ==
    IF ls = <<>> THEN <<>>
    ELSE IF Len(ls) = 1 THEN Head(ls) \o (IF finalNewline THEN <<NL>> ELSE <<>>)
    ELSE Head(ls) \o <<NL>> \o Join(Tail(ls), finalNewline)

Texts ==
    { Join(ls, nl) : ls \in UNION { [1..n -> LineBodies] : n \in 0..MaxLines },
                     nl \in BOOLEAN }

ChunkSizes == (1..MaxChunk) \cup {CHUNK_SIZE}

RECURSIVE LineEnd(_, _)
\* The offset file.readline() leaves the stream at, read from offset p: just
\* past the next newline, or the end of the text.
LineEnd(text, p) ==
    IF p >= Len(text) THEN p
    ELSE IF text[p + 1] = NL THEN p + 1
    ELSE LineEnd(text, p + 1)

\* What file.readline() returns at offset p ('' at the end of the text).
readline(text, p) == SubSeq(text, p + 1, LineEnd(text, p))

\* file.seek(target) called at offset p: the new offset.
seek(p, target) == target

\* ---------------------------------------------------------- get_dictionary
FirstSep(s) == CHOOSE i \in 1..Len(s) : s[i] = SEPARATOR /\ \A j \in 1..(i - 1) : s[j] # SEPARATOR

RECURSIVE split(_)
\* str.split(SEPARATOR)
split(s) ==
    IF \A i \in 1..Len(s) : s[i] # SEPARATOR THEN <<s>>
    ELSE <<SubSeq(s, 1, FirstSep(s) - 1)>> \o split(SubSeq(s, FirstSep(s) + 1, Len(s)))

RECURSIVE strip(_)
\* str.strip()
strip(s) ==
    IF s = <<>> THEN s
    ELSE IF Head(s) \in Whitespace THEN strip(Tail(s))
    ELSE IF s[Len(s)] \in Whitespace THEN strip(SubSeq(s, 1, Len(s) - 1))
    ELSE s

Min(a, b) == IF a <= b THEN a ELSE b

\* dict(zip(keys, values)): the shorter list decides the length, a repeated
\* key keeps its last value.
dict_zip(keys, values) ==
    LET n == Min(Len(keys), Len(values))
        last(k) == CHOOSE i \in 1..n : keys[i] = k /\ \A j \in (i + 1)..n : keys[j] # k
    IN  [k \in { keys[i] : i \in 1..n } |-> values[last(k)]]

get_dictionary(header_, line) ==
    LET header_list == [i \in 1..Len(split(header_)) |-> strip(split(header_)[i])]
        line_list == [i \in 1..Len(split(line)) |-> strip(split(line)[i])]
    IN  dict_zip(header_list, line_list)

\* -------------------------------------------------------- CSVFile.__init__
NoLocations == [i \in {} |-> 0]

RECURSIVE ScanLoop_counts_first(_, _, _, _, _)
\* The loop with line_num += 1 moved before the test: every key is one more.
ScanLoop_counts_first(text, c, p, line_num, locations) ==
    IF readline(text, p) = <<>>
    THEN [line_num |-> line_num, lines_locations |-> locations, pos |-> LineEnd(text, p)]
    ELSE LET location == LineEnd(text, p)
         IN  ScanLoop_counts_first(text, c, location, line_num + 1,
                      IF line_num % c = 0
                      THEN ((line_num + 1) :> location) @@ locations
                      ELSE locations)

RECURSIVE ScanLoop_tell_first(_, _, _, _, _)
\* The loop with file.tell() taken before the line is read.
ScanLoop_tell_first(text, c, p, line_num, locations) ==
    IF readline(text, p) = <<>>
    THEN [line_num |-> line_num, lines_locations |-> locations, pos |-> LineEnd(text, p)]
    ELSE LET location == p
         IN  ScanLoop_tell_first(text, c, LineEnd(text, p), line_num + 1,
                      IF (line_num - 1) % c = 0
                      THEN (line_num :> location) @@ locations
                      ELSE locations)

RECURSIVE ScanLoop(_, _, _, _, _)
\* The while file.readline() loop: p is the offset before the read, the
\* result the final line_num and lines_locations and the offset the loop
\* leaves the stream at.
ScanLoop(text, c, p, line_num, locations) ==
    IF readline(text, p) = <<>>
    THEN [line_num |-> line_num, lines_locations |-> locations, pos |-> LineEnd(text, p)]
    ELSE LET location == LineEnd(text, p)
         IN  ScanLoop(text, c, location, line_num + 1,
                      IF (line_num - 1) % c = 0
                      THEN (line_num :> location) @@ locations
                      ELSE locations)

\* The object __init__ builds over a stream positioned at its start.
CSVFile(text, c) ==
    LET scan == ScanLoop(text, c, 0, 1, NoLocations)
    IN  [chunk_size |-> c,
         lines_locations |-> scan.lines_locations,
         header |-> readline(text, seek(scan.pos, 0)),
         pos |-> LineEnd(text, seek(scan.pos, 0)),
         iter_line |-> 1,
         length |-> scan.line_num - 2]

\* ------------------------------------------------------------------- state
VARIABLES
    content,          \* the characters of the stream (never written)
    pos,              \* self.file's offset
    chunk_size,       \* self.chunk_size
    lines_locations,  \* self.lines_locations
    header,           \* self.header
    iter_line,        \* self.iter_line
    length,           \* self.length
    ret,              \* the last call: what it was and how it ended
    cur,              \* the iterator handle obtained last and its advances,
                      \* while nothing else has been called on the object
                      \* or its stream
    prev              \* the handle obtained before it, and its advances

vars == <<content, pos, chunk_size, lines_locations, header, iter_line, length,
          ret, cur, prev>>

\* The fields of the object, as the methods see them.
Self ==
    [content |-> content, pos |-> pos, chunk_size |-> chunk_size,
     lines_locations |-> lines_locations, header |-> header,
     iter_line |-> iter_line, length |-> length]

NoValue == [k \in {} |-> <<>>]

\* int(a / b) for b > 0: the quotient truncated toward zero.
TruncDiv(a, b) == IF a >= 0 THEN a \div b ELSE -((-a) \div b)

RECURSIVE SkipLines(_, _, _, _)
\* while counter < offset: self.file.readline(); counter += 1
\* (at the end of the text every further readline() leaves the offset alone)
SkipLines(text, p, counter, offset) ==
    IF counter >= offset THEN p
    ELSE IF p >= Len(text) THEN p
    ELSE SkipLines(text, LineEnd(text, p), counter + 1, offset)

\* get_line without its seek: the scan starts wherever the stream is.
get_line_no_seek(self, line_number) ==
    LET start_of_chunk_line ==
            TruncDiv(line_number, self.chunk_size) * self.chunk_size + 1
        offset == line_number % self.chunk_size
        at == SkipLines(self.content, self.pos, 1, offset)
    IN  IF start_of_chunk_line \notin DOMAIN self.lines_locations
        THEN [raised |-> "KeyError", value |-> NoValue, pos |-> self.pos]
        ELSE [raised |-> "",
              value |-> get_dictionary(self.header, readline(self.content, at)),
              pos |-> LineEnd(self.content, at)]

\* CSVFile.get_line: how the call ends, the dictionary it returns and the
\* offset it leaves the stream at.
get_line(self, line_number) ==
    LET start_of_chunk_line ==
            TruncDiv(line_number, self.chunk_size) * self.chunk_size + 1
        offset == line_number % self.chunk_size
        at == IF start_of_chunk_line \in DOMAIN self.lines_locations
              THEN SkipLines(self.content,
                             seek(self.pos, self.lines_locations[start_of_chunk_line]),
                             1, offset)
              ELSE self.pos
    IN  IF start_of_chunk_line \notin DOMAIN self.lines_locations
        THEN [raised |-> "KeyError", value |-> NoValue, pos |-> self.pos]
        ELSE [raised |-> "",
              value |-> get_dictionary(self.header, readline(self.content, at)),
              pos |-> LineEnd(self.content, at)]

\* __next__ with < for <=: the last line is never yielded.
next_stops_early(self) ==
    LET line == self.iter_line + 1
        got == get_line(self, line)
    IN  IF line < self.length
        THEN [raised |-> got.raised, value |-> got.value, pos |-> got.pos, iter_line |-> line]
        ELSE [raised |-> "StopIteration", value |-> NoValue, pos |-> self.pos,
              iter_line |-> line]

\* CSVFile.__next__
next_(self) ==
    LET line == self.iter_line + 1
        got == get_line(self, line)
    IN  IF line <= self.length
        THEN [raised |-> got.raised, value |-> got.value, pos |-> got.pos, iter_line |-> line]
        ELSE [raised |-> "StopIteration", value |-> NoValue, pos |-> self.pos,
              iter_line |-> line]

\* CSVFile.get_iter: the cursor it sets (the iterator returned is the object).
get_iter(self, line_number) == line_number - 1

\* get_line_iterating on a stream at offset p: the line it returns, line_num - 1
\* lines being read and dropped first, and the offset it leaves the stream at.
get_line_iterating(text, p, line_num) ==
    LET at == SkipLines(text, p, 1, line_num)
    IN  [line |-> readline(text, at), pos |-> LineEnd(text, at)]

\* -------------------------------------------------------------------- Init
Init ==
    \E text \in Texts, c \in ChunkSizes :
        LET self == CSVFile(text, c)
        IN  /\ content = text
            /\ pos = self.pos
            /\ chunk_size = self.chunk_size
            /\ lines_locations = self.lines_locations
            /\ header = self.header
            /\ iter_line = self.iter_line
            /\ length = self.length
            /\ ret = [op |-> "__init__", arg |-> 0, moved |-> FALSE,
                      raised |-> "", value |-> NoValue, line |-> <<>>]
            /\ cur = [via |-> "__init__", start |-> 0, adv |-> 0]
            /\ prev = [live |-> FALSE, start |-> 0, adv |-> 0]

\* The arguments the calls are tried with: every line number of the stream
\* and Margin more on each side of [1, length + 1].
Args == (0 - Margin)..(length + 1 + Margin)
Starts == 1..(length + 1)
\* The line numbers main() draws for get_line_iterating: randint(0, length).
ScanArgs == 0..length

\* ----------------------------------------------------------------- actions
\* A handle that is followed no longer.
Untracked == [via |-> "none", start |-> 0, adv |-> 0]

\* The stream is not where __init__ left it.
Moved == pos # LineEnd(content, 0)

\* csv_file.get_line(n)
GetLine(n) ==
    LET r == get_line(Self, n)
    IN  /\ pos' = r.pos
        /\ ret' = [op |-> "get_line", arg |-> n, moved |-> Moved,
                   raised |-> r.raised, value |-> r.value, line |-> <<>>]
        /\ cur' = Untracked
        /\ UNCHANGED <<content, chunk_size, lines_locations, header, iter_line,
                       length, prev>>

\* get_line_iterating(csv_file.file, n): the scan main() runs on the stream
\* the object holds
GetLineIterating(n) ==
    LET r == get_line_iterating(content, pos, n)
    IN  /\ pos' = r.pos
        /\ ret' = [op |-> "get_line_iterating", arg |-> n, moved |-> Moved,
                   raised |-> "", value |-> NoValue, line |-> r.line]
        /\ cur' = Untracked
        /\ UNCHANGED <<content, chunk_size, lines_locations, header, iter_line,
                       length, prev>>

\* it = csv_file.get_iter(n)
GetIter(n) ==
    /\ iter_line' = get_iter(Self, n)
    /\ ret' = [op |-> "get_iter", arg |-> n, moved |-> FALSE,
               raised |-> "", value |-> NoValue, line |-> <<>>]
    /\ cur' = [via |-> "get_iter", start |-> n, adv |-> 0]
    /\ UNCHANGED <<content, pos, chunk_size, lines_locations, header, length, prev>>

\* next(it) on the handle obtained last (the object itself before any get_iter)
IterNext ==
    LET r == next_(Self)
    IN  /\ iter_line <= length + Margin
        /\ iter_line' = r.iter_line
        /\ pos' = r.pos
        /\ ret' = [op |-> "next", arg |-> 0, moved |-> FALSE,
                   raised |-> r.raised, value |-> r.value, line |-> <<>>]
        /\ cur' = IF cur.via = "none" THEN cur ELSE [cur EXCEPT !.adv = @ + 1]
        /\ UNCHANGED <<content, chunk_size, lines_locations, header, length, prev>>

\* it2 = csv_file.get_iter(b) while the handle of an earlier get_iter(a) is kept
GetIterAgain(b) ==
    /\ cur.via = "get_iter"
    /\ ~prev.live
    /\ iter_line' = get_iter(Self, b)
    /\ ret' = [op |-> "get_iter", arg |-> b, moved |-> FALSE,
               raised |-> "", value |-> NoValue, line |-> <<>>]
    /\ prev' = [live |-> TRUE, start |-> cur.start, adv |-> cur.adv]
    /\ cur' = [via |-> "get_iter", start |-> b, adv |-> 0]
    /\ UNCHANGED <<content, pos, chunk_size, lines_locations, header, length>>

\* it = csv_file.get_iter(a), the first handle
GetIterFirst(a) ==
    /\ cur.via = "__init__"
    /\ cur.adv = 0
    /\ GetIter(a)

\* next(it) on the earlier handle
IterNextPrev ==
    LET r == next_(Self)
    IN  /\ prev.live
        /\ iter_line <= length + Margin
        /\ iter_line' = r.iter_line
        /\ pos' = r.pos
        /\ ret' = [op |-> "next_prev", arg |-> 0, moved |-> FALSE,
                   raised |-> r.raised, value |-> r.value, line |-> <<>>]
        /\ prev' = [prev EXCEPT !.adv = @ + 1]
        /\ UNCHANGED <<content, chunk_size, lines_locations, header, length, cur>>

\* next(it2) on the later handle, the earlier one being kept
IterNextCur ==
    /\ prev.live
    /\ IterNext

Next ==
    \/ \E n \in Args : GetLine(n)
    \/ \E n \in Args : GetIter(n)
    \/ IterNext
    \/ \E n \in ScanArgs : GetLineIterating(n)

Spec == Init /\ [][Next]_vars

\* Two handles of one object: get_iter(a), get_iter(b) and any interleaving
\* of advances of the two.
NextHandles ==
    \/ \E a \in Starts : GetIterFirst(a)
    \/ \E b \in Starts : GetIterAgain(b)
    \/ IterNextPrev
    \/ IterNextCur

SpecHandles == Init /\ [][NextHandles]_vars

\* ------------------------------------------------- the stream, read plainly
\* The newlines among the first i characters.
Newlines(text, i) == Cardinality({ j \in 1..i : text[j] = NL })

\* The lines of a text; a last line without a newline is a line.
NumLines(text) ==
    Newlines(text, Len(text))
        + (IF Len(text) > 0 /\ text[Len(text)] # NL THEN 1 ELSE 0)

\* The offset just past the first r lines (the header and r - 1 data lines):
\* where data record r starts.
StartOfRecord(text, r) ==
    IF Newlines(text, Len(text)) < r THEN Len(text)
    ELSE CHOOSE i \in 1..Len(text) : text[i] = NL /\ Newlines(text, i) = r

\* The complete lines in the offsets [from, to).
LinesBetween(text, from, to) ==
    Cardinality({ j \in (from + 1)..to : text[j] = NL })
        + (IF to > from /\ text[to] # NL THEN 1 ELSE 0)

\* The i-th advance of a sequence started at start yields get_line(start + i - 1)
\* while that line is at most length, and ends the sequence after.
YieldIs(start, i) ==
    IF start + i - 1 <= length
    THEN /\ ret.raised = ""
         /\ ret.value = get_line(Self, start + i - 1).value
         /\ get_line(Self, start + i - 1).raised = ""
    ELSE ret.raised = "StopIteration"

\* ------------------------------------------------------------------ claims
\* C1: get_line(n), 1 <= n <= length, returns the record a linear scan reaches
\* that starts right after the header, reads n lines and parses the n-th
\* against the header.
GetLineMatchesLinearScan ==
    (ret.op = "get_line" /\ ret.arg \in 1..length) =>
        /\ ret.raised = ""
        /\ ret.value = get_dictionary(readline(content, 0),
                           get_line_iterating(content, LineEnd(content, 0), ret.arg).line)

\* C2: over a stream with a header, get_line(n) with n < 1 or n > length fails
\* with an error (any exception is taken for the out-of-range error); it
\* returns nothing.
GetLineOutOfRangeFails ==
    (content # <<>> /\ ret.op = "get_line" /\ ret.arg \notin 1..length) =>
        ret.raised # ""

\* C3: the sequence of get_iter(n), 1 <= n <= length + 1, advanced with nothing
\* else called in between, yields get_line(n), get_line(n + 1), ...,
\* get_line(length), length - n + 1 records in all, and then ends with
\* StopIteration.
IterateFromYieldsEachLine ==
    (cur.via = "get_iter" /\ cur.start \in Starts /\ ret.op = "next") =>
        YieldIs(cur.start, cur.adv)

\* C3 witness: a sequence started inside the stream has yielded two records
\* or more and has ended.
IterateFromExhausted ==
    /\ cur.via = "get_iter" /\ cur.start \in 1..length
    /\ ret.op = "next" /\ ret.raised = "StopIteration"
    /\ cur.adv >= 3

\* C4: with two handles from get_iter(a) and a later get_iter(b) over a
\* stream with a header, every advance of the first yields the next of
\* a, a + 1, ... and every advance of the second the next of b, b + 1, ...
HandlesIndependent ==
    (content # <<>> /\ prev.live) =>
        /\ ret.op = "next" => YieldIs(cur.start, cur.adv)
        /\ ret.op = "next_prev" => YieldIs(prev.start, prev.adv)

\* C5 as stated: the keys of lines_locations are the r >= 1 with
\* (r - 1) mod chunk_size = 0 up to the record count, none above it.
KeysUpToRecordCount ==
    content # <<>> =>
        DOMAIN lines_locations =
            { r \in 1..(NumLines(content) - 1) : (r - 1) % chunk_size = 0 }

\* C5 amended: the keys of lines_locations are the r >= 1 with
\* (r - 1) mod chunk_size = 0 up to the number of lines, which is the record
\* count plus one: the key one past the last record is stored when the record
\* count is a multiple of chunk_size.
KeysUpToLineCount ==
    DOMAIN lines_locations =
        { r \in 1..NumLines(content) : (r - 1) % chunk_size = 0 }

\* C5 witness: the record count is a positive multiple of a chunk size of two
\* or more, and the key one past it is stored.
KeyPastLastRecord ==
    /\ chunk_size >= 2
    /\ NumLines(content) - 1 >= chunk_size
    /\ (NumLines(content) - 1) % chunk_size = 0
    /\ NumLines(content) \in DOMAIN lines_locations

\* C6: length is never negative: the lines less the header, and 0 for a
\* stream without lines.
RecordCountNotNegative ==
    /\ length >= 0
    /\ length = IF NumLines(content) = 0 THEN 0 ELSE NumLines(content) - 1

\* C7: over a stream with a header, the first advance of get_iter(n) with n
\* outside [1, length + 1] fails with an error; it neither yields a record
\* nor ends the sequence.
IterateFromOutOfRangeFails ==
    (/\ content # <<>>
     /\ cur.via = "get_iter" /\ cur.start \notin Starts
     /\ ret.op = "next" /\ cur.adv = 1) =>
        ret.raised \notin {"", "StopIteration"}

\* C8: every key r of lines_locations maps to the offset where data record r
\* starts, just past the header and r - 1 data lines, and between two
\* consecutive keys k1 < k2 lie k2 - k1 complete lines.
KeysMapToRecordStarts ==
    /\ \A r \in DOMAIN lines_locations :
           lines_locations[r] = StartOfRecord(content, r)
    /\ \A k1, k2 \in DOMAIN lines_locations :
           (k1 < k2 /\ \A k \in DOMAIN lines_locations : ~(k1 < k /\ k < k2)) =>
               LinesBetween(content, lines_locations[k1], lines_locations[k2]) = k2 - k1

\* C8 witness: an index of two keys or more over chunks of two lines or more,
\* after calls that moved the stream.
SeveralChunksIndexed ==
    /\ chunk_size >= 2
    /\ Cardinality(DOMAIN lines_locations) >= 2
    /\ ret.op = "get_line"
    /\ Moved

\* C9: the object as __init__ leaves it, advanced as an iterator with no
\* get_iter call, yields get_line(1) first and every line up to length after.
FreshObjectIteratesFromFirst ==
    (cur.via = "__init__" /\ ret.op = "next" /\ length >= 1) =>
        YieldIs(1, cur.adv)

\* C10: get_line(n), 1 <= n <= length, returns after any calls what it returns
\* as the first call on an object just built over the same stream.
GetLineIgnoresPosition ==
    (ret.op = "get_line" /\ ret.arg \in 1..length) =>
        LET built == [content |-> content] @@ CSVFile(content, chunk_size)
        IN  /\ ret.raised = get_line(built, ret.arg).raised
            /\ ret.value = get_line(built, ret.arg).value

\* C10 witness: get_line returned a record, called with the stream elsewhere
\* than __init__ left it and the cursor moved by earlier calls.
GetLineAfterOtherCalls ==
    /\ ret.op = "get_line" /\ ret.arg \in 1..length
    /\ ret.moved
    /\ iter_line # 1
    /\ ret.raised = ""

====
